---- MODULE Spec2Model ----
(***************************************************************************)
(* Model of src/lambda/chat_handler.py: the chat request handler of the    *)
(* grants assistant.  One or more warm execution contexts (instances) run  *)
(* lambda_handler; each instance handles one request at a time and blocks  *)
(* at four external calls: table.put_item (twice), ssm.get_parameter and   *)
(* client.messages.create.  Every action below is one such call together   *)
(* with the local code that follows it up to the next blocking call.       *)
(*                                                                         *)
(* Texts are sequences of string chunks: a user message is a sequence of   *)
(* one-character strings (so that lower() and the `in` substring test are  *)
(* computed), a canned reply is a one-chunk sequence, the empty text is    *)
(* << >>.  Timestamps are sequences of characters compared bytewise.       *)
(***************************************************************************)
EXTENDS Integers, Sequences, FiniteSets, TLC

(* ------------------------------ bounds --------------------------------- *)
\* total number of invocations over all instances
MaxRequests == 2
\* last reading of the wall clock, in clock ticks
MaxClock == 1
\* clock ticks per second (1,000,000 microseconds in datetime)
TicksPerSecond == 2

\* timedelta(days=30) in seconds
ThirtyDays == 2592000

\* the warm execution contexts running the handler concurrently: each has
\* its own module globals, all write to the same table
Instances == {1, 2}

None == "None"

VARIABLES
    store,            \* the DynamoDB table: a set of items
    clock,            \* the last reading datetime.utcnow() gave
    invocations,      \* per instance: number of lambda_handler invocations
    pc,               \* per instance: the blocking call it waits at
    event,            \* per instance: the event of the current invocation
    anthropic_client, \* per instance: the module global _anthropic_client
    ssm_calls,        \* per instance: number of ssm.get_parameter calls made
    user_message,     \* per instance: local of lambda_handler
    conversation_id,  \* per instance: local of lambda_handler
    ai_response,      \* per instance: local of lambda_handler
    item,             \* per instance: the Item handed to table.put_item
    response,         \* per instance: the value lambda_handler returned
    req,              \* per instance: what the current invocation has done
    fb_words,         \* fallback responder check: keywords the input is built of
    fb_message,       \* fallback responder check: the input text
    fb_reply          \* fallback responder check: the output text

vars == <<store, clock, invocations, pc, event, anthropic_client,
          ssm_calls, user_message, conversation_id, ai_response, item,
          response, req, fb_words, fb_message, fb_reply>>

handler_vars == <<store, clock, invocations, pc, event,
                  anthropic_client, ssm_calls, user_message, conversation_id,
                  ai_response, item, response, req>>

fb_vars == <<fb_words, fb_message, fb_reply>>

(* ------------------------------ texts ---------------------------------- *)
LowerAlpha == <<"a","b","c","d","e","f","g","h","i","j","k","l","m",
                "n","o","p","q","r","s","t","u","v","w","x","y","z">>

UpperAlpha == <<"A","B","C","D","E","F","G","H","I","J","K","L","M",
                "N","O","P","Q","R","S","T","U","V","W","X","Y","Z">>

\* str.lower() on one character
LowerChar(c) ==
    IF \E k \in 1..26 : UpperAlpha[k] = c
    THEN LowerAlpha[CHOOSE k \in 1..26 : UpperAlpha[k] = c]
    ELSE c

\* str.lower()
Lower(s) == [k \in 1..Len(s) |-> LowerChar(s[k])]

\* the `in` operator on strings: sub occurs in s as a contiguous substring
Contains(s, sub) ==
    \E k \in 1..(Len(s) - Len(sub) + 1) : SubSeq(s, k, k + Len(sub) - 1) = sub

KwGrant    == <<"g","r","a","n","t">>
KwWrite    == <<"w","r","i","t","e">>
KwBudget   == <<"b","u","d","g","e","t">>
KwDeadline == <<"d","e","a","d","l","i","n","e">>
KwTimeline == <<"t","i","m","e","l","i","n","e">>
KwHello    == <<"h","e","l","l","o">>
KwHi       == <<"h","i">>

ReplyProposal == <<"I can help you write grants! A strong grant proposal typically includes: 1) Executive Summary, 2) Statement of Need, 3) Project Description, 4) Budget, and 5) Organization Information. What specific aspect would you like help with?">>
ReplyBudget   == <<"For grant budgets, make sure to include: personnel costs, equipment, supplies, travel, and indirect costs. Be realistic and justify each expense clearly. Would you like me to help you create a budget template?">>
ReplyTimeline == <<"Managing grant deadlines is crucial! I recommend creating a timeline that works backwards from the submission date, allowing time for reviews, revisions, and gathering required documents. Would you like help planning your timeline?">>
ReplyGreeting == <<"Hello! I'm here to help you with grant writing and applications. Feel free to ask me about proposal structure, budgets, timelines, or any other grant-related questions.">>
ReplyGeneric  == <<"Thank you for your question. I'm here to help with grant writing, applications, budgets, timelines, and proposal development. Could you provide more details about what you need help with?">>

\* faulty variant: the budget rule is tried before the grant-and-write rule
generate_fallback_response_budget_first(message) ==
    LET message_lower == Lower(message) IN
    IF Contains(message_lower, KwBudget) THEN ReplyBudget
    ELSE IF Contains(message_lower, KwGrant) /\ Contains(message_lower, KwWrite)
    THEN ReplyProposal
    ELSE IF Contains(message_lower, KwDeadline) \/ Contains(message_lower, KwTimeline)
    THEN ReplyTimeline
    ELSE IF Contains(message_lower, KwHello) \/ Contains(message_lower, KwHi)
    THEN ReplyGreeting
    ELSE ReplyGeneric

generate_fallback_response(message) ==
    LET message_lower == Lower(message) IN
    IF Contains(message_lower, KwGrant) /\ Contains(message_lower, KwWrite)
    THEN ReplyProposal
    ELSE IF Contains(message_lower, KwBudget) THEN ReplyBudget
    ELSE IF Contains(message_lower, KwDeadline) \/ Contains(message_lower, KwTimeline)
    THEN ReplyTimeline
    ELSE IF Contains(message_lower, KwHello) \/ Contains(message_lower, KwHi)
    THEN ReplyGreeting
    ELSE ReplyGeneric

(* ---------------------------- timestamps -------------------------------- *)
Digits == <<"0","1","2","3","4","5","6","7","8","9">>

\* datetime.isoformat() + 'Z': the fraction is left out when it is zero
IsoFormat(t) ==
    LET second == t \div TicksPerSecond
        micro  == t % TicksPerSecond
    IN  <<Digits[second + 1]>>
        \o (IF micro = 0 THEN << >> ELSE <<".", Digits[micro + 1]>>)
        \o <<"Z">>

\* the byte a character is encoded as
Ord(c) ==
    IF c = "." THEN 46
    ELSE IF c = "Z" THEN 90
    ELSE 47 + (CHOOSE k \in 1..10 : Digits[k] = c)

\* a <= b in the bytewise order of strings
RECURSIVE LexLeq(_, _)
LexLeq(a, b) ==
    IF a = << >> THEN TRUE
    ELSE IF b = << >> THEN FALSE
    ELSE IF Ord(Head(a)) # Ord(Head(b)) THEN Ord(Head(a)) < Ord(Head(b))
    ELSE LexLeq(Tail(a), Tail(b))

\* str(uuid.uuid4()): a value no other call returns, named after the call
\* (instance i, its n-th invocation, the place of the call in the source)
Uuid4(i, n, site) == "uuid-" \o ToString(i) \o "-" \o ToString(n) \o "-" \o site

(* ------------------------------ requests ------------------------------- *)
MsgHi     == <<"H","i">>
MsgBudget == <<"b","u","d","g","e","t">>

\* request bodies: None, text that is no JSON, a JSON array, JSON objects
BodyNone    == [kind |-> "None",    obj |-> << >>]
BodyInvalid == [kind |-> "invalid", obj |-> << >>]
BodyArray   == [kind |-> "array",   obj |-> << >>]
BodyObject(o) == [kind |-> "object", obj |-> o]

Objects ==
    { << >>,
      [message |-> << >>, conversationId |-> ""],
      [message |-> MsgHi, conversationId |-> "c1"],
      [message |-> MsgBudget] }

Bodies == {BodyNone, BodyInvalid, BodyArray} \cup {BodyObject(o) : o \in Objects}

Events ==
    {[httpMethod |-> "POST"],
     [httpMethod |-> "OPTIONS", body |-> BodyInvalid],
     [httpMethod |-> "OPTIONS", body |-> BodyObject([message |-> MsgHi, conversationId |-> "c1"])]}
    \cup {[httpMethod |-> "POST", body |-> b] : b \in Bodies}

NoEvent == [httpMethod |-> "none"]

\* event.get('body', '{}')
EventGetBody(ev) ==
    IF "body" \in DOMAIN ev THEN ev.body ELSE BodyObject(<< >>)

\* json.loads
json_loads(s) ==
    IF s.kind = "None"
    THEN [raised |-> TRUE, exc |-> "the JSON object must be str, bytes or bytearray, not NoneType",
          type |-> "", obj |-> << >>]
    ELSE IF s.kind = "invalid"
    THEN [raised |-> TRUE, exc |-> "Expecting value: line 1 column 1 (char 0)",
          type |-> "", obj |-> << >>]
    ELSE IF s.kind = "array"
    THEN [raised |-> FALSE, exc |-> "", type |-> "list", obj |-> << >>]
    ELSE [raised |-> FALSE, exc |-> "", type |-> "dict", obj |-> s.obj]

\* body.get('message', '')
GetMessage(obj) == IF "message" \in DOMAIN obj THEN obj.message ELSE << >>

\* body.get('conversationId') or str(uuid.uuid4())
SuppliesConversationId(obj) ==
    "conversationId" \in DOMAIN obj /\ obj.conversationId # ""

\* faulty variant: the empty message is let through
NotMessageNever(message) == FALSE

\* `not user_message`
NotMessage(message) == message = << >>

\* faulty variant: no request is taken for a preflight
IsPreflightNever(ev) == FALSE

\* event.get('httpMethod') == 'OPTIONS'
IsPreflight(ev) == ev.httpMethod = "OPTIONS"

(* ------------------------------ responses ------------------------------ *)
get_cors_headers ==
    [AccessControlAllowOrigin  |-> "*",
     AccessControlAllowHeaders |-> "Content-Type,X-Amz-Date,Authorization,X-Api-Key,X-Amz-Security-Token",
     AccessControlAllowMethods |-> "OPTIONS,POST",
     ContentType               |-> "application/json"]

\* json.dumps of a dict: a one-chunk text holding the serialised object
JsonDumps(d) == <<d>>

error_response(message, status_code) ==
    [statusCode |-> status_code, headers |-> get_cors_headers,
     body |-> JsonDumps([error |-> message])]

PreflightResponse ==
    [statusCode |-> 200, headers |-> get_cors_headers, body |-> << >>]

SuccessResponse(message, cid, ts) ==
    [statusCode |-> 200, headers |-> get_cors_headers,
     body |-> JsonDumps([message |-> message, conversationId |-> cid, timestamp |-> ts])]

\* the except branch of lambda_handler
InternalError(detail) ==
    error_response(<<"Internal server error: ", detail>>, 500)

MessageRequired == error_response(<<"Message is required">>, 400)

NoResponse == [statusCode |-> 0, headers |-> get_cors_headers, body |-> << >>]

(* ------------------------------- storage ------------------------------- *)
\* the primary key of the conversations table
Key(it) == <<it.conversationId, it.timestamp>>

\* table.put_item: the item replaces any item with the same key
PutItem(st, it) == {r \in st : Key(r) # Key(it)} \cup {it}

\* the Item store_message builds (ttl read from the clock at that moment)
Item(cid, sender, message, ts, id, now) ==
    [conversationId |-> cid, timestamp |-> ts, sender |-> sender,
     message |-> message, messageId |-> id,
     ttl |-> (now \div TicksPerSecond) + ThirtyDays]

NoItem == [conversationId |-> "", timestamp |-> << >>, sender |-> "",
           message |-> << >>, messageId |-> "", ttl |-> 0]

PutOutcomes == {"ok", "raise"}

\* faulty variant: a failed write is logged and swallowed
store_message_swallow(outcome, st, it) ==
    [raised |-> FALSE, exc |-> "",
     store |-> IF outcome = "ok" THEN PutItem(st, it) ELSE st]

\* store_message, given what table.put_item does
store_message(outcome, st, it) ==
    [raised |-> outcome = "raise",
     exc |-> IF outcome = "raise" THEN "put_item failed" ELSE "",
     store |-> IF outcome = "ok" THEN PutItem(st, it) ELSE st]

(* ------------------------------ generation ----------------------------- *)
ApiText == <<"(text generated by the model)">>

\* the credential fetch and client construction (lines 27-32) raise or not
SsmOutcomes == {"fetch_raise", "ok"}

\* what client.messages.create does: raise (or hand back a first content
\* item without .text, which raises at line 130), content == [], a first
\* item whose text is '', a first item with text
CreateOutcomes == {"create_raise", "empty_content", "text_empty", "text"}

GenerationFailures == {"fetch_raise", "create_raise", "empty_content"}

\* faulty variant: the cache is not consulted
NeedsFetchAlways(cached) == TRUE

\* `if _anthropic_client is None`
NeedsFetch(cached) == cached = None

\* faulty variant: the failure of the generation step is not caught
generate_response_propagate(outcome, message) ==
    IF outcome = "text" THEN [raised |-> FALSE, exc |-> "", text |-> ApiText]
    ELSE IF outcome = "text_empty" THEN [raised |-> FALSE, exc |-> "", text |-> << >>]
    ELSE [raised |-> TRUE, exc |-> outcome, text |-> << >>]

\* faulty variant: an empty content list is answered with an empty reply
generate_response_unchecked(outcome, message) ==
    IF outcome = "text" THEN [raised |-> FALSE, exc |-> "", text |-> ApiText]
    ELSE IF outcome \in {"text_empty", "empty_content"}
    THEN [raised |-> FALSE, exc |-> "", text |-> << >>]
    ELSE [raised |-> FALSE, exc |-> "", text |-> generate_fallback_response(message)]

\* generate_response, given how the generation step went
generate_response(outcome, message) ==
    IF outcome = "text" THEN [raised |-> FALSE, exc |-> "", text |-> ApiText]
    ELSE IF outcome = "text_empty" THEN [raised |-> FALSE, exc |-> "", text |-> << >>]
    ELSE [raised |-> FALSE, exc |-> "", text |-> generate_fallback_response(message)]

(* ------------------------------- handler ------------------------------- *)
RECURSIVE InvocationsOf(_)
InvocationsOf(S) ==
    IF S = {} THEN 0
    ELSE LET i == CHOOSE j \in S : TRUE IN invocations[i] + InvocationsOf(S \ {i})

TotalInvocations == InvocationsOf(Instances)

\* the record of what an invocation has done so far
NewReq(cached) ==
    [writes |-> << >>, ssm |-> 0, gen |-> 0, put_failed |-> "none",
     gen_outcome |-> "none", client_at_start |-> cached]

\* lambda_handler returns r
Return(i, r) ==
    /\ response' = [response EXCEPT ![i] = r]
    /\ pc' = [pc EXCEPT ![i] = "done"]

\* lambda_handler returns before its locals are bound
NoLocals(i) ==
    /\ user_message' = [user_message EXCEPT ![i] = << >>]
    /\ conversation_id' = [conversation_id EXCEPT ![i] = ""]
    /\ ai_response' = [ai_response EXCEPT ![i] = << >>]
    /\ item' = [item EXCEPT ![i] = NoItem]
    /\ UNCHANGED clock

\* what datetime.utcnow() may read: the clock does not run backwards, and
\* any amount of time up to MaxClock may have passed since the last reading
Readings == clock..MaxClock

\* lambda_handler up to its first table.put_item: preflight, parsing,
\* validation, the conversation id, the user turn's timestamp and Item
\* (returned responses are handed over before a new request is taken, and
\* execution contexts are started in the order of their numbers)
Invoke(i, ev, now) ==
    /\ pc[i] = "idle"
    /\ \A j \in Instances : pc[j] # "done"
    /\ IF i = 1 THEN TRUE ELSE invocations[i - 1] > 0
    /\ TotalInvocations < MaxRequests
    /\ invocations' = [invocations EXCEPT ![i] = @ + 1]
    /\ event' = [event EXCEPT ![i] = ev]
    /\ req' = [req EXCEPT ![i] = NewReq(anthropic_client[i])]
    /\ UNCHANGED <<store, anthropic_client, ssm_calls, fb_vars>>
    /\ IF IsPreflight(ev)
       THEN /\ Return(i, PreflightResponse)
            /\ NoLocals(i)
       ELSE LET body == json_loads(EventGetBody(ev)) IN
            IF body.raised
            THEN /\ Return(i, InternalError(body.exc))
                 /\ NoLocals(i)
            ELSE IF body.type # "dict"
            THEN /\ Return(i, InternalError("'list' object has no attribute 'get'"))
                 /\ NoLocals(i)
            ELSE LET message  == GetMessage(body.obj)
                     supplied == SuppliesConversationId(body.obj)
                     cid      == IF supplied THEN body.obj.conversationId
                                 ELSE Uuid4(i, invocations[i] + 1, "conversation")
                 IN  /\ user_message' = [user_message EXCEPT ![i] = message]
                     /\ conversation_id' = [conversation_id EXCEPT ![i] = cid]
                     /\ ai_response' = [ai_response EXCEPT ![i] = << >>]
                     /\ IF NotMessage(message)
                        THEN /\ Return(i, MessageRequired)
                             /\ item' = [item EXCEPT ![i] = NoItem]
                             /\ UNCHANGED clock
                        ELSE /\ pc' = [pc EXCEPT ![i] = "put_user"]
                             /\ item' = [item EXCEPT ![i] =
                                    Item(cid, "user", message, IsoFormat(now),
                                         Uuid4(i, invocations[i] + 1, "user"), now)]
                             /\ clock' = now
                             /\ UNCHANGED response

\* the reply is known: the assistant turn's timestamp and Item are built
\* (or, had generate_response raised, the except branch answers)
Generated(i, result, now) ==
    IF result.raised
    THEN /\ Return(i, InternalError(result.exc))
         /\ UNCHANGED <<ai_response, item, clock>>
    ELSE /\ ai_response' = [ai_response EXCEPT ![i] = result.text]
         /\ item' = [item EXCEPT ![i] =
                Item(conversation_id[i], "assistant", result.text,
                     IsoFormat(now), Uuid4(i, invocations[i], "assistant"),
                     now)]
         /\ clock' = now
         /\ pc' = [pc EXCEPT ![i] = "put_assistant"]
         /\ UNCHANGED response

\* the user turn's table.put_item returns or raises; on success
\* generate_response starts and get_anthropic_client consults the cache
PutUser(i, outcome) ==
    /\ pc[i] = "put_user"
    /\ LET stored == store_message(outcome, store, item[i]) IN
       /\ store' = stored.store
       /\ req' = [req EXCEPT ![i].writes =
                      IF outcome = "ok" THEN Append(@, item[i]) ELSE @,
                  ![i].put_failed = IF outcome = "ok" THEN @ ELSE "user"]
       /\ IF stored.raised
          THEN Return(i, InternalError(stored.exc))
          ELSE /\ pc' = [pc EXCEPT ![i] =
                      IF NeedsFetch(anthropic_client[i]) THEN "ssm_get"
                      ELSE "messages_create"]
               /\ UNCHANGED response
    /\ UNCHANGED <<clock, invocations, event, anthropic_client, ssm_calls,
                   user_message, conversation_id, ai_response, item, fb_vars>>

\* ssm.get_parameter and the Anthropic constructor return or raise
SsmGet(i, outcome, now) ==
    /\ pc[i] = "ssm_get"
    /\ ssm_calls' = [ssm_calls EXCEPT ![i] = @ + 1]
    /\ IF outcome = "ok"
       THEN /\ anthropic_client' = [anthropic_client EXCEPT ![i] = "client"]
            /\ req' = [req EXCEPT ![i].ssm = @ + 1]
            /\ pc' = [pc EXCEPT ![i] = "messages_create"]
            /\ UNCHANGED <<ai_response, item, response, clock>>
       ELSE /\ req' = [req EXCEPT ![i].ssm = @ + 1, ![i].gen_outcome = outcome]
            /\ Generated(i, generate_response(outcome, user_message[i]), now)
            /\ UNCHANGED anthropic_client
    /\ UNCHANGED <<store, invocations, event, user_message,
                   conversation_id, fb_vars>>

\* client.messages.create returns or raises
MessagesCreate(i, outcome, now) ==
    /\ pc[i] = "messages_create"
    /\ req' = [req EXCEPT ![i].gen = @ + 1, ![i].gen_outcome = outcome]
    /\ Generated(i, generate_response(outcome, user_message[i]), now)
    /\ UNCHANGED <<store, invocations, event, anthropic_client, ssm_calls,
                   user_message, conversation_id, fb_vars>>

\* the assistant turn's table.put_item returns or raises
PutAssistant(i, outcome) ==
    /\ pc[i] = "put_assistant"
    /\ LET stored == store_message(outcome, store, item[i]) IN
       /\ store' = stored.store
       /\ req' = [req EXCEPT ![i].writes =
                      IF outcome = "ok" THEN Append(@, item[i]) ELSE @,
                  ![i].put_failed = IF outcome = "ok" THEN @ ELSE "assistant"]
       /\ IF stored.raised
          THEN Return(i, InternalError(stored.exc))
          ELSE Return(i, SuccessResponse(ai_response[i], conversation_id[i],
                                         item[i].timestamp))
    /\ UNCHANGED <<clock, invocations, event, anthropic_client, ssm_calls,
                   user_message, conversation_id, ai_response, item, fb_vars>>

\* the response has been handed to the caller: the instance is idle again
\* and nothing of the invocation is left but the store and the cached client
Finish(i) ==
    /\ pc[i] = "done"
    /\ pc' = [pc EXCEPT ![i] = "idle"]
    /\ event' = [event EXCEPT ![i] = NoEvent]
    /\ response' = [response EXCEPT ![i] = NoResponse]
    /\ req' = [req EXCEPT ![i] = NewReq(None)]
    /\ NoLocals(i)
    /\ UNCHANGED <<store, invocations, anthropic_client, ssm_calls, fb_vars>>

HandlerInit ==
    /\ store = {}
    /\ clock = 0
    /\ invocations = [i \in Instances |-> 0]
    /\ pc = [i \in Instances |-> "idle"]
    /\ event = [i \in Instances |-> NoEvent]
    /\ anthropic_client = [i \in Instances |-> None]
    /\ ssm_calls = [i \in Instances |-> 0]
    /\ user_message = [i \in Instances |-> << >>]
    /\ conversation_id = [i \in Instances |-> ""]
    /\ ai_response = [i \in Instances |-> << >>]
    /\ item = [i \in Instances |-> NoItem]
    /\ response = [i \in Instances |-> NoResponse]
    /\ req = [i \in Instances |-> NewReq(None)]

Init ==
    /\ HandlerInit
    /\ fb_words = [keys |-> {}, upper |-> FALSE, reversed |-> FALSE]
    /\ fb_message = << >>
    /\ fb_reply = << >>

Next ==
    \/ \E i \in Instances, ev \in Events, now \in Readings : Invoke(i, ev, now)
    \/ \E i \in Instances, outcome \in PutOutcomes : PutUser(i, outcome)
    \/ \E i \in Instances, outcome \in SsmOutcomes, now \in Readings :
           SsmGet(i, outcome, now)
    \/ \E i \in Instances, outcome \in CreateOutcomes, now \in Readings :
           MessagesCreate(i, outcome, now)
    \/ \E i \in Instances, outcome \in PutOutcomes : PutAssistant(i, outcome)
    \/ \E i \in Instances : Finish(i)

Spec == Init /\ [][Next]_vars

(* --------------------- the fallback responder alone -------------------- *)
Keywords == <<KwGrant, KwWrite, KwBudget, KwDeadline, KwTimeline, KwHello, KwHi>>

UpperChar(c) ==
    IF \E k \in 1..26 : LowerAlpha[k] = c
    THEN UpperAlpha[CHOOSE k \in 1..26 : LowerAlpha[k] = c]
    ELSE c

\* the chosen keywords, each after a blank, in list order from position k on
RECURSIVE Joined(_, _)
Joined(keys, k) ==
    IF k > Len(Keywords) THEN << >>
    ELSE (IF k \in keys THEN <<" ">> \o Keywords[k] ELSE << >>) \o Joined(keys, k + 1)

\* the same in the opposite order, from position k down
RECURSIVE JoinedBack(_, _)
JoinedBack(keys, k) ==
    IF k < 1 THEN << >>
    ELSE (IF k \in keys THEN <<" ">> \o Keywords[k] ELSE << >>) \o JoinedBack(keys, k - 1)

\* an input text holding exactly the chosen keywords, in either order and
\* either case: no keyword occurs in a blank-separated list of the others
BuildMessage(w) ==
    LET text == IF w.reversed THEN JoinedBack(w.keys, Len(Keywords))
                ELSE Joined(w.keys, 1)
    IN  IF w.upper THEN [k \in 1..Len(text) |-> UpperChar(text[k])] ELSE text

FallbackInputs ==
    [keys : SUBSET (1..Len(Keywords)), upper : BOOLEAN, reversed : BOOLEAN]

InitFallback ==
    /\ HandlerInit
    /\ fb_words \in FallbackInputs
    /\ fb_message = BuildMessage(fb_words)
    /\ fb_reply = << >>

\* generate_fallback_response is called on the input
ApplyFallback ==
    /\ fb_reply = << >>
    /\ fb_reply' = generate_fallback_response(fb_message)
    /\ UNCHANGED <<handler_vars, fb_words, fb_message>>

NextFallback == ApplyFallback

SpecFallback == InitFallback /\ [][NextFallback]_vars

(* ------------------------------- claims -------------------------------- *)
\* a request that is no preflight
NonPreflight(ev) == ev.httpMethod = "POST"

\* a request whose body parses to a JSON object
HasObjectBody(ev) == "body" \in DOMAIN ev /\ ev.body.kind = "object"

\* a request whose body is a JSON object with a non-empty message
NonEmptyMessage(ev) ==
    /\ NonPreflight(ev)
    /\ HasObjectBody(ev)
    /\ "message" \in DOMAIN ev.body.obj
    /\ ev.body.obj.message # << >>

\* a request whose body is a JSON object without message, or with message ''
MissingMessage(ev) ==
    /\ NonPreflight(ev)
    /\ HasObjectBody(ev)
    /\ IF "message" \in DOMAIN ev.body.obj THEN ev.body.obj.message = << >> ELSE TRUE

\* this step is instance i taking a new request
Invoked(i) == invocations'[i] = invocations[i] + 1

\* the step leaves the store and instance i's credential cache alone and
\* the request of instance i has called neither store, secret store nor API
NoEffects(i) ==
    /\ store' = store
    /\ anthropic_client' = anthropic_client
    /\ ssm_calls' = ssm_calls
    /\ req'[i].writes = << >>
    /\ req'[i].ssm = 0
    /\ req'[i].gen = 0

\* C1: when the generation step fails (the credential fetch raises, the API
\* call raises, the API returns empty content) and both storage writes
\* succeed, a request with a non-empty message is answered 200 with the
\* fallback responder's reply to the user message, never 500.
C1_FallbackOnGenerationFailure ==
    \A i \in Instances :
        ( /\ pc[i] = "done"
          /\ NonEmptyMessage(event[i])
          /\ req[i].gen_outcome \in GenerationFailures
          /\ req[i].put_failed = "none" )
        => /\ response[i].statusCode = 200
           /\ response[i].body # << >>
           /\ response[i].body[1].message
                = generate_fallback_response(event[i].body.obj.message)

C1_Witness ==
    \E i \in Instances :
        /\ pc[i] = "done"
        /\ event[i] = [httpMethod |-> "POST",
                       body |-> BodyObject([message |-> MsgHi, conversationId |-> "c1"])]
        /\ req[i].gen_outcome = "empty_content"
        /\ req[i].put_failed = "none"
        /\ response[i].statusCode = 200
        /\ response[i].body[1].message = ReplyGreeting

\* C2: a non-preflight request whose body is a JSON object with message
\* absent or '' is answered 400 with error exactly "Message is required" in
\* the very step that takes it: no storage write, no credential fetch and no
\* generation call happens, store and credential cache are unchanged.
C2_ValidationRejectsWithoutEffects ==
    [][ \A i \in Instances :
          (Invoked(i) /\ MissingMessage(event'[i]))
          => /\ pc'[i] = "done"
             /\ response'[i].statusCode = 400
             /\ response'[i].body = <<[error |-> <<"Message is required">>]>>
             /\ NoEffects(i) ]_vars

C2_Witness ==
    \E i \in Instances :
        /\ pc[i] = "done"
        /\ MissingMessage(event[i])
        /\ "message" \in DOMAIN event[i].body.obj
        /\ response[i].statusCode = 400
        /\ store # {}
        /\ anthropic_client[i] = "client"

\* C3: a non-preflight request whose body is missing (key absent or null)
\* or is no JSON is treated like the empty object and answered
\* 400 "Message is required", not 500.
C3_MissingBodyIsEmptyObject ==
    \A i \in Instances :
        ( /\ pc[i] = "done"
          /\ NonPreflight(event[i])
          /\ IF "body" \in DOMAIN event[i]
             THEN event[i].body.kind \in {"None", "invalid"} ELSE TRUE )
        => /\ response[i].statusCode = 400
           /\ response[i].body = <<[error |-> <<"Message is required">>]>>

\* the records of the store that the request of instance i wrote
WrittenBy(i) ==
    {r \in store : \E k \in 1..Len(req[i].writes) :
                       r.messageId = req[i].writes[k].messageId}

\* C4: after a request answered 200 the store holds exactly two records
\* written by it, one of sender user and one of sender assistant, both with
\* the conversationId of the response, and the assistant record's timestamp
\* is >= the user record's, also when both writes read the same timestamp.
C4_TwoTurnsPerSuccess ==
    \A i \in Instances :
        ( /\ pc[i] = "done"
          /\ NonPreflight(event[i])
          /\ response[i].statusCode = 200 )
        => /\ Cardinality(WrittenBy(i)) = 2
           /\ \E u \in WrittenBy(i), a \in WrittenBy(i) :
                /\ u.sender = "user"
                /\ a.sender = "assistant"
                /\ u.conversationId = response[i].body[1].conversationId
                /\ a.conversationId = response[i].body[1].conversationId
                /\ LexLeq(u.timestamp, a.timestamp)

\* C5: if a storage write raises, the answer is 500 with an error beginning
\* "Internal server error: " and never 200; the step in which the write
\* fails leaves the store as it was (a stored user turn is not rolled back,
\* a failed user write stores nothing and no generation call is made); a 200
\* is returned only after both the user and the assistant write succeeded.
C5_StorageFailureIs500 ==
    /\ [] ( \A i \in Instances :
              pc[i] = "done" =>
                /\ req[i].put_failed # "none" =>
                     /\ response[i].statusCode = 500
                     /\ Head(response[i].body[1].error) = "Internal server error: "
                /\ req[i].put_failed = "assistant" =>
                     /\ Len(req[i].writes) = 1
                     /\ req[i].writes[1].sender = "user"
                /\ req[i].put_failed = "user" =>
                     /\ req[i].writes = << >>
                     /\ req[i].ssm = 0
                     /\ req[i].gen = 0
                /\ (response[i].statusCode = 200 /\ NonPreflight(event[i])) =>
                     /\ req[i].put_failed = "none"
                     /\ Len(req[i].writes) = 2
                     /\ req[i].writes[1].sender = "user"
                     /\ req[i].writes[2].sender = "assistant" )
    /\ [][ \A i \in Instances :
             (pc[i] \in {"put_user", "put_assistant"} /\ req'[i].put_failed # "none")
             => /\ store' = store
                /\ pc'[i] = "done" ]_vars

C5_Witness ==
    \E i \in Instances :
        /\ pc[i] = "done"
        /\ req[i].put_failed = "assistant"
        /\ response[i].statusCode = 500
        /\ req[i].writes[1] \in store

C7_PreflightHasNoEffects ==
    [][ \A i \in Instances :
          (Invoked(i) /\ event'[i].httpMethod = "OPTIONS")
          => /\ pc'[i] = "done"
             /\ response'[i].statusCode = 200
             /\ response'[i].headers = get_cors_headers
             /\ response'[i].body = << >>
             /\ NoEffects(i) ]_vars

C7_Witness ==
    \E i \in Instances :
        /\ pc[i] = "done"
        /\ event[i].httpMethod = "OPTIONS"
        /\ event[i].body.kind = "object"
        /\ response[i] = PreflightResponse
        /\ store # {}
        /\ anthropic_client[i] = "client"

\* C8 as stated: in one process the secret store is called once at most,
\* also when the first fetch failed.
C8_FetchedOnce ==
    \A i \in Instances : ssm_calls[i] <= 1

\* C8 as amended: the secret store is called only by an invocation that
\* finds no cached client, once per such invocation; once a client is
\* cached no later step of that process calls the secret store or replaces
\* the client.
C8_FetchedOnlyWhileNotCached ==
    /\ [] ( \A i \in Instances : req[i].ssm <= 1 )
    /\ [][ \A i \in Instances :
             /\ anthropic_client[i] # None =>
                  /\ ssm_calls'[i] = ssm_calls[i]
                  /\ anthropic_client'[i] = anthropic_client[i]
             /\ ssm_calls'[i] # ssm_calls[i] =>
                  /\ ssm_calls'[i] = ssm_calls[i] + 1
                  /\ pc[i] = "ssm_get" ]_vars

C8_Witness ==
    \E i \in Instances :
        /\ invocations[i] = 2
        /\ ssm_calls[i] = 1
        /\ req[i].client_at_start = "client"
        /\ req[i].ssm = 0
        /\ pc[i] = "put_assistant"
        /\ req[i].gen_outcome = "text"

\* C9: no step replaces or changes a record that is in the store; the store
\* only gains records.
C9_TurnsNeverReplaced ==
    [][ \A r \in store : r \in store' ]_vars

\* the reply the precedence of the rules gives for a set of keywords
FirstMatch(keys) ==
    IF {1, 2} \subseteq keys THEN ReplyProposal
    ELSE IF 3 \in keys THEN ReplyBudget
    ELSE IF 4 \in keys \/ 5 \in keys THEN ReplyTimeline
    ELSE IF 6 \in keys \/ 7 \in keys THEN ReplyGreeting
    ELSE ReplyGeneric

\* C10: the fallback reply is that of the first matching rule, decided by
\* which keywords occur in the lowercased input: grant and write, else
\* budget, else deadline or timeline, else hello or hi, else the generic
\* reply.
C10_FallbackFirstMatch ==
    fb_reply # << >> => fb_reply = FirstMatch(fb_words.keys)

C10_Witness ==
    /\ fb_reply = ReplyProposal
    /\ {1, 2, 3} \subseteq fb_words.keys
    /\ fb_words.upper

====
